---- MODULE Spec2Model ----
(***************************************************************************)
(* Model of green.py (GreenGPSmap): the scoring of the uploaded CSV        *)
(* (carregar_e_processar_dados), the selection and the circuit             *)
(* (encontrar_melhor_circuito), the map and the statistics (criar_mapa,    *)
(* main), and the Streamlit re-run of main on every interaction.           *)
(*                                                                         *)
(* Numbers.  Metric readings and coordinates are integers.  A normalised   *)
(* value or a score is an exact fraction [n, d]; d = 0 stands for the NaN  *)
(* that a division 0/0 gives in numpy.  np.sqrt is taken to Scale parts    *)
(* per unit and rounded up, which keeps the edge weights a metric.         *)
(***************************************************************************)
EXTENDS Integers, Sequences, FiniteSets, TLC

VARIABLES uploaded_file, slider, num_pontos, pc, erro, log, df,
          melhores_pontos, df_circuito, shown

vars == <<uploaded_file, slider, num_pontos, pc, erro, log, df,
          melhores_pontos, df_circuito, shown>>

----------------------------------------------------------------------------
(* Bounds and inputs *)

\* Longest CSV (number of data rows) that is drawn as an input.
MaxRows == 4

\* Fixed-point resolution of np.sqrt: distances are held in 1/Scale units.
Scale == 1000

\* st.slider('Número de pontos no circuito', 5, 20, 10)
SliderMin == 5
SliderMax == 20
SliderDefault == 10

\* def encontrar_melhor_circuito(df, num_pontos=10)
NumPontosDefault == 10

Row(la, lo, p, t) ==
    [latitude |-> la, longitude |-> lo, poluicao |-> p, transito |-> t]

\* The CSV lines the input files are made of.
Rows ==
    { Row(0, 1, 2, 2), Row(0, 0, 1, 2), Row(2, 1, 2, 0), Row(2, 2, 0, 0) }

\* Every CSV of at most MaxRows lines (the empty one is a header-only file).
Datasets == UNION { [1..n -> Rows] : n \in 0..MaxRows }

\* num_pontos as a direct caller of encontrar_melhor_circuito may pass it.
Counts == 0..(MaxRows + 1)

----------------------------------------------------------------------------
(* Arithmetic helpers *)

SetMin(S) == CHOOSE x \in S : \A y \in S : x <= y
SetMax(S) == CHOOSE x \in S : \A y \in S : x >= y

RECURSIVE SeqSum(_, _)
SeqSum(s, f) == IF s = <<>> THEN 0 ELSE s[1][f] + SeqSum(Tail(s), f)

Frac(a, b) == [n |-> a, d |-> b]
IsNaN(x) == x.d = 0
FracEq(x, y) == x.n * y.d = y.n * x.d
FracLt(x, y) == x.n * y.d < y.n * x.d
FracLe(x, y) == x.n * y.d <= y.n * x.d
FracAdd(x, y) == Frac(x.n * y.d + y.n * x.d, x.d * y.d)
FracHalf(x) == Frac(x.n, 2 * x.d)
InUnit(x) == x.d > 0 /\ 0 <= x.n /\ x.n <= x.d

\* Smallest r with r * r >= x, by bisection on lo < r <= hi.
RECURSIVE CeilSqrtIn(_, _, _)
CeilSqrtIn(x, lo, hi) ==
    IF hi - lo <= 1 THEN hi
    ELSE LET mid == (lo + hi) \div 2
         IN IF mid * mid >= x THEN CeilSqrtIn(x, lo, mid)
            ELSE CeilSqrtIn(x, mid, hi)

\* A power of two whose square is at least x.
RECURSIVE UpperRoot(_, _)
UpperRoot(x, h) == IF h * h >= x THEN h ELSE UpperRoot(x, 2 * h)

CeilSqrt(x) == IF x = 0 THEN 0 ELSE CeilSqrtIn(x, 0, UpperRoot(x, 1))

----------------------------------------------------------------------------
(* carregar_e_processar_dados *)

Column(rows, c) == { rows[i][c] : i \in DOMAIN rows }

\* sklearn _handle_zeros_in_scale without the replacement of a zero range.
HandleZerosInScaleAbsent(range) == range

\* MinMaxScaler: a zero data range is replaced by 1 before dividing.
HandleZerosInScale(range) == IF range = 0 THEN 1 ELSE range

\* The normalisation without the subtraction of the minimum.
MinMaxNormNoShift(rows, c, x) ==
    Frac(x, HandleZerosInScale(SetMax(Column(rows, c)) - SetMin(Column(rows, c))))

\* The normalisation with the maximum, not the range, as the divisor.
MinMaxNormByMax(rows, c, x) ==
    Frac(x - SetMin(Column(rows, c)), HandleZerosInScale(SetMax(Column(rows, c))))

\* MinMaxScaler().fit_transform on one column: (x - min) / (max - min).
MinMaxNorm(rows, c, x) ==
    Frac(x - SetMin(Column(rows, c)),
         HandleZerosInScale(SetMax(Column(rows, c)) - SetMin(Column(rows, c))))

\* df['score'] = (df['poluicao_norm'] + df['transito_norm']) / 2
Score(pn, tn) == FracHalf(FracAdd(pn, tn))

\* The frame of pd.read_csv with the three derived columns; idx is the
\* RangeIndex label of the row.
ScoredRow(rows, i) ==
    LET pn == MinMaxNorm(rows, "poluicao", rows[i].poluicao)
        tn == MinMaxNorm(rows, "transito", rows[i].transito)
    IN [idx |-> i - 1,
        latitude |-> rows[i].latitude, longitude |-> rows[i].longitude,
        poluicao |-> rows[i].poluicao, transito |-> rows[i].transito,
        poluicao_norm |-> pn, transito_norm |-> tn, score |-> Score(pn, tn)]

CarregarEProcessarDados(rows) == [i \in DOMAIN rows |-> ScoredRow(rows, i)]

----------------------------------------------------------------------------
(* encontrar_melhor_circuito: the selection *)

\* Place of row i in the frame sorted by score, largest first, rows of equal
\* score in frame order (keep='first').
RankLargest(frame, i) ==
    Cardinality({ j \in DOMAIN frame :
                    \/ FracLt(frame[i].score, frame[j].score)
                    \/ FracEq(frame[i].score, frame[j].score) /\ j < i })

\* df.nlargest(n, 'score'): the first n rows of that order, none for n <= 0,
\* all of them for n above the frame's length (no error is raised).
NLargest(frame, n) ==
    LET k == IF n <= 0 THEN 0
             ELSE IF n >= Len(frame) THEN Len(frame) ELSE n
    IN [p \in 1..k |->
          frame[CHOOSE i \in DOMAIN frame : RankLargest(frame, i) = p - 1]]

----------------------------------------------------------------------------
(* encontrar_melhor_circuito: the graph and the circuit *)

\* Largest squared distance between two of the input lines.
MaxD2 ==
    SetMax({ (a.latitude - b.latitude) * (a.latitude - b.latitude)
             + (a.longitude - b.longitude) * (a.longitude - b.longitude) :
             a \in Rows, b \in Rows })

\* np.sqrt of each squared distance that can occur, in 1/Scale units.
SqrtTable == [x \in 0..MaxD2 |-> CeilSqrt(x * Scale * Scale)]

\* dist = np.sqrt((lat1 - lat2)**2 + (lon1 - lon2)**2), the weight of the
\* edge between two rows.
Dist(r1, r2) ==
    SqrtTable[(r1.latitude - r2.latitude) * (r1.latitude - r2.latitude)
              + (r1.longitude - r2.longitude) * (r1.longitude - r2.longitude)]

\* G: one node per selected row (its place in melhores_pontos stands for its
\* label), one edge per pair of different nodes.
Nodes(cands) == DOMAIN cands
Edges(cands) == { {i, j} : i \in Nodes(cands), j \in Nodes(cands) } \ { {i} : i \in Nodes(cands) }

EdgeWeight(cands, e) ==
    LET i == SetMin(e) IN Dist(cands[i], cands[SetMax(e)])

RECURSIVE EdgeSetWeight(_, _)
EdgeSetWeight(cands, es) ==
    IF es = {} THEN 0
    ELSE LET e == CHOOSE x \in es : TRUE
         IN EdgeWeight(cands, e) + EdgeSetWeight(cands, es \ {e})

\* nx.minimum_spanning_tree: every tree a cheapest-edge-first construction can
\* give (the choice among edges of equal weight is left open).
RECURSIVE SpanningTrees(_, _, _)
SpanningTrees(cands, inTree, tree) ==
    IF inTree = Nodes(cands) THEN {tree}
    ELSE LET cross == { e \in Edges(cands) : Cardinality(e \cap inTree) = 1 }
             m == SetMin({ EdgeWeight(cands, e) : e \in cross })
         IN UNION { SpanningTrees(cands, inTree \cup e, tree \cup {e}) :
                      e \in { x \in cross : EdgeWeight(cands, x) = m } }

\* The trees a costliest-edge-first construction gives.
RECURSIVE CostliestTrees(_, _, _)
CostliestTrees(cands, inTree, tree) ==
    IF inTree = Nodes(cands) THEN {tree}
    ELSE LET cross == { e \in Edges(cands) : Cardinality(e \cap inTree) = 1 }
             m == SetMax({ EdgeWeight(cands, e) : e \in cross })
         IN UNION { CostliestTrees(cands, inTree \cup e, tree \cup {e}) :
                      e \in { x \in cross : EdgeWeight(cands, x) = m } }

MaximumSpanningTrees(cands) == CostliestTrees(cands, {1}, {})

MinimumSpanningTrees(cands) == SpanningTrees(cands, {1}, {})

\* The nodes of odd degree in the tree.
OddNodes(cands, tree) ==
    { v \in Nodes(cands) : Cardinality({ e \in tree : v \in e }) % 2 = 1 }

RECURSIVE PerfectMatchings(_)
PerfectMatchings(S) ==
    IF S = {} THEN {{}}
    ELSE LET a == SetMin(S)
         IN UNION { { {{a, b}} \cup m : m \in PerfectMatchings(S \ {a, b}) } :
                      b \in S \ {a} }

\* nx.min_weight_matching on the odd nodes: the perfect matchings of least
\* total weight.
MinWeightMatchings(cands, S) ==
    LET all == PerfectMatchings(S)
        m == SetMin({ EdgeSetWeight(cands, x) : x \in all })
    IN { x \in all : EdgeSetWeight(cands, x) = m }

\* MG: the tree's edges and the matching's edges, an edge of both twice.
MultiGraph(cands, tree, matching) ==
    [e \in Edges(cands) |->
        (IF e \in tree THEN 1 ELSE 0) + (IF e \in matching THEN 1 ELSE 0)]

\* nx.eulerian_circuit(MG): every walk from path[1] that uses each edge of mg
\* once and ends where it began, as the sequence of nodes met.
RECURSIVE EulerianCircuits(_, _)
EulerianCircuits(mg, path) ==
    LET cur == path[Len(path)]
    IN IF \A e \in DOMAIN mg : mg[e] = 0
       THEN IF cur = path[1] THEN {path} ELSE {}
       ELSE UNION { EulerianCircuits([mg EXCEPT ![e] = @ - 1],
                                     Append(path, CHOOSE v \in e : v # cur)) :
                      e \in { x \in DOMAIN mg : mg[x] > 0 /\ cur \in x } }

RECURSIVE DropSeen(_, _)
DropSeen(path, seen) ==
    IF path = <<>> THEN <<>>
    ELSE IF path[1] \in seen THEN DropSeen(Tail(path), seen)
    ELSE <<path[1]>> \o DropSeen(Tail(path), seen \cup {path[1]})

\* christofides' _shortcutting: every node once, in the order first met,
\* then nodes.append(nodes[0]).
Shortcutting(path) == LET nodes == DropSeen(path, {}) IN Append(nodes, nodes[1])

\* nx.approximation.christofides on the complete graph of the selected rows:
\* a minimum spanning tree, a minimum-weight matching of its odd nodes, an
\* Eulerian walk of the two together from the first node of the graph, and
\* the walk cut short.  Which tree, matching and walk networkx takes among
\* equals is left open.
Christofides(cands) ==
    UNION { UNION { { Shortcutting(c) :
                        c \in EulerianCircuits(MultiGraph(cands, t, m), <<1>>) } :
                      m \in MinWeightMatchings(cands, OddNodes(cands, t)) } :
              t \in MinimumSpanningTrees(cands) }

\* Fewer than two nodes leave christofides a null graph, whose connectivity
\* networkx refuses to decide: the call raises.
TspRaises(cands) == Len(cands) < 2

\* nx.approximation.traveling_salesman_problem(G, cycle=True): the closed
\* walks it can return, as places in melhores_pontos.  G is undirected, so
\* the method is christofides; the weights are a metric, so the shortest path
\* between two nodes is their own edge and the walk of christofides is
\* returned as it is, its first node repeated at the end.
TravelingSalesmanProblem(cands) ==
    IF TspRaises(cands) THEN {} ELSE Christofides(cands)

\* melhores_pontos.loc[circuito]: one row per element of circuito.
Loc(cands, circuito) == [p \in DOMAIN circuito |-> cands[circuito[p]]]

\* Sum of the weights of the edges between consecutive rows of a sequence.
RECURSIVE PathLength(_)
PathLength(rows) ==
    IF Len(rows) < 2 THEN 0
    ELSE Dist(rows[1], rows[2]) + PathLength(Tail(rows))

----------------------------------------------------------------------------
(* criar_mapa and the statistics of main *)

\* pontos = df_circuito[['latitude', 'longitude']].values.tolist();
\* pontos.append(pontos[0]): the polyline drawn on the map.
CriarMapa(circ) ==
    [p \in 1..(Len(circ) + 1) |->
        LET r == IF p <= Len(circ) THEN circ[p] ELSE circ[1]
        IN <<r.latitude, r.longitude>>]

\* f"{total / count:.2f}" in hundredths: the quotient rounded to two
\* decimals, a tie going to the even hundredth.
Format2f(total, count) ==
    LET q == (100 * total) \div count
        r == (100 * total) % count
    IN IF 2 * r > count THEN q + 1
       ELSE IF 2 * r = count THEN q + (q % 2)
       ELSE q

\* df_circuito[c].mean() as st.metric shows it.
MeanShown(circ, c) == Format2f(SeqSum(circ, c), Len(circ))

\* What main puts on the page for a circuit: the map, the two metrics and
\* the table of the circuit's rows.
Present(circ) ==
    [mapa |-> CriarMapa(circ),
     poluicao |-> MeanShown(circ, "poluicao"),
     transito |-> MeanShown(circ, "transito"),
     tabela |-> [p \in DOMAIN circ |-> circ[p].idx]]

----------------------------------------------------------------------------
(* State *)

\* st.file_uploader returns None until a file is chosen: <<>> is None and
\* <<rows>> the uploaded CSV.
NoFile == <<>>

\* The files a user of the page uploads.
Arquivos ==
    LET a == Row(0, 1, 2, 2)
        b == Row(0, 0, 1, 2)
        c == Row(2, 1, 2, 0)
        d == Row(2, 2, 0, 0)
        e == Row(0, 0, 0, 2)
        f == Row(2, 1, 2, 0)
    IN { <<>>, <<a>>, <<a, b>>, <<a, b, c>>, <<a, b, c, d>>,
         <<a, b, c, d, e, f>> }

\* A run that starts with fresh locals but leaves the last page standing.
StaleRun ==
    /\ pc' = "inicio"
    /\ erro' = ""
    /\ num_pontos' = NumPontosDefault
    /\ log' = <<>>
    /\ df' = <<>>
    /\ melhores_pontos' = <<>>
    /\ df_circuito' = <<>>
    /\ shown' = shown

\* A run of the script starts with fresh locals and an empty page.
FreshRun ==
    /\ pc' = "inicio"
    /\ erro' = ""
    /\ num_pontos' = NumPontosDefault
    /\ log' = <<>>
    /\ df' = <<>>
    /\ melhores_pontos' = <<>>
    /\ df_circuito' = <<>>
    /\ shown' = <<>>

\* A run of the script has ended: by reaching its last line, by an exception,
\* or at once when no file is uploaded.
Finished == pc \in {"fim", "erro", "apresentado"}

\* The slider was drawn by the last run (line 91 was reached).
SliderDrawn == Finished /\ Len(log) >= 2

Init ==
    /\ uploaded_file \in { <<d>> : d \in Datasets }
    /\ slider = SliderDefault
    /\ num_pontos = NumPontosDefault
    /\ pc = "inicio"
    /\ erro = ""
    /\ log = <<>>
    /\ df = <<>>
    /\ melhores_pontos = <<>>
    /\ df_circuito = <<>>
    /\ shown = <<>>

InitApp ==
    /\ uploaded_file = NoFile
    /\ slider = SliderDefault
    /\ num_pontos = NumPontosDefault
    /\ pc = "inicio"
    /\ erro = ""
    /\ log = <<>>
    /\ df = <<>>
    /\ melhores_pontos = <<>>
    /\ df_circuito = <<>>
    /\ shown = <<>>

----------------------------------------------------------------------------
(* The steps of a run *)

\* main with uploaded_file None: nothing below the if runs; the slider, not
\* drawn in this run, loses its value.
MainSemArquivo ==
    /\ pc = "inicio"
    /\ uploaded_file = NoFile
    /\ pc' = "fim"
    /\ slider' = SliderDefault
    /\ UNCHANGED <<uploaded_file, num_pontos, erro, log, df, melhores_pontos,
                   df_circuito, shown>>

\* df = carregar_e_processar_dados(uploaded_file).  MinMaxScaler raises on a
\* frame without rows.
Carregar ==
    /\ pc = "inicio"
    /\ uploaded_file # NoFile
    /\ log' = Append(log, "score")
    /\ IF Len(uploaded_file[1]) = 0
       THEN /\ pc' = "erro"
            /\ erro' = "ValueError"
            /\ slider' = SliderDefault
            /\ df' = df
       ELSE /\ pc' = "carregado"
            /\ erro' = erro
            /\ slider' = slider
            /\ df' = CarregarEProcessarDados(uploaded_file[1])
    /\ UNCHANGED <<uploaded_file, num_pontos, melhores_pontos, df_circuito,
                   shown>>

\* num_pontos = st.slider(...)
LerSlider ==
    /\ pc = "carregado"
    /\ num_pontos' = slider
    /\ pc' = "pronto"
    /\ UNCHANGED <<uploaded_file, slider, erro, log, df, melhores_pontos,
                   df_circuito, shown>>

\* A caller other than main passes its own num_pontos.
Chamada(n) ==
    /\ pc = "carregado"
    /\ num_pontos' = n
    /\ pc' = "pronto"
    /\ UNCHANGED <<uploaded_file, slider, erro, log, df, melhores_pontos,
                   df_circuito, shown>>

\* df_circuito = encontrar_melhor_circuito(df, num_pontos)
Encontrar ==
    /\ pc = "pronto"
    /\ LET m == NLargest(df, num_pontos)
       IN /\ melhores_pontos' = m
          /\ IF TspRaises(m)
             THEN /\ pc' = "erro"
                  /\ erro' = "NetworkXPointlessConcept"
                  /\ df_circuito' = <<>>
             ELSE /\ pc' = "resolvido"
                  /\ erro' = erro
                  /\ \E c \in TravelingSalesmanProblem(m) :
                        df_circuito' = Loc(m, c)
    /\ log' = log \o <<"select", "solve">>
    /\ UNCHANGED <<uploaded_file, slider, num_pontos, df, shown>>

\* criar_mapa, st_folium, the two st.metric and st.dataframe.
Apresentar ==
    /\ pc = "resolvido"
    /\ shown' = <<Present(df_circuito)>>
    /\ log' = Append(log, "present")
    /\ pc' = "apresentado"
    /\ UNCHANGED <<uploaded_file, slider, num_pontos, erro, df,
                   melhores_pontos, df_circuito>>

----------------------------------------------------------------------------
(* The interactions, each of which makes Streamlit run the script again *)

Upload(d) ==
    /\ Finished
    /\ uploaded_file' = <<d>>
    /\ FreshRun
    /\ UNCHANGED slider

Remover ==
    /\ Finished
    /\ uploaded_file # NoFile
    /\ uploaded_file' = NoFile
    /\ FreshRun
    /\ UNCHANGED slider

MoverSlider(n) ==
    /\ SliderDrawn
    /\ n # slider
    /\ slider' = n
    /\ FreshRun
    /\ UNCHANGED uploaded_file

----------------------------------------------------------------------------
(* Specifications *)

\* One call of each function of the pipeline on a drawn file and count.
Next ==
    \/ Carregar
    \/ \E n \in Counts : Chamada(n)
    \/ Encontrar
    \/ Apresentar

Spec == Init /\ [][Next]_vars

\* The page: main run again after every upload, removal and slider move.
NextApp ==
    \/ MainSemArquivo
    \/ Carregar
    \/ LerSlider
    \/ Encontrar
    \/ Apresentar
    \/ \E d \in Arquivos : Upload(d)
    \/ Remover
    \/ \E n \in SliderMin..SliderMax : MoverSlider(n)

SpecApp == InitApp /\ [][NextApp]_vars

----------------------------------------------------------------------------
(* Vocabulary of the properties *)

Metrics == {"poluicao", "transito"}
NormOf(c) == IF c = "poluicao" THEN "poluicao_norm" ELSE "transito_norm"

\* The CSV behind the current frame.
File == uploaded_file[1]

\* A metric column that holds one value only.
ConstantColumn(rows, c) == Cardinality(Column(rows, c)) = 1

\* carregar_e_processar_dados has returned its frame.
Loaded == df # <<>>

\* encontrar_melhor_circuito was entered and made its selection.
Selected == Len(log) >= 3

\* encontrar_melhor_circuito has returned df_circuito.
Returned == pc \in {"resolvido", "apresentado"}

Labels(rows) == { rows[p].idx : p \in DOMAIN rows }

\* Length of the closed tour through the rows of a sequence, the edge from
\* the last row back to the first included.
ClosedLength(rows) ==
    IF rows = <<>> THEN 0 ELSE PathLength(Append(rows, rows[1]))

\* The nearest-neighbour tours from the first candidate: at each step any
\* unvisited candidate at the least distance from the current one.
RECURSIVE NearestNeighbourTours(_, _)
NearestNeighbourTours(cands, path) ==
    LET rest == Nodes(cands) \ { path[p] : p \in DOMAIN path }
        cur == cands[path[Len(path)]]
    IN IF rest = {} THEN {path}
       ELSE LET m == SetMin({ Dist(cur, cands[v]) : v \in rest })
            IN UNION { NearestNeighbourTours(cands, Append(path, v)) :
                         v \in { x \in rest : Dist(cur, cands[x]) = m } }

NearestNeighbourLengths(cands) ==
    { ClosedLength(Loc(cands, t)) : t \in NearestNeighbourTours(cands, <<1>>) }

\* Every tour that visits each candidate once, from the first candidate.
RECURSIVE AllTours(_, _)
AllTours(cands, path) ==
    LET rest == Nodes(cands) \ { path[p] : p \in DOMAIN path }
    IN IF rest = {} THEN {path}
       ELSE UNION { AllTours(cands, Append(path, v)) : v \in rest }

\* Length of a shortest closed tour over the candidates.
OptimalLength(cands) ==
    SetMin({ ClosedLength(Loc(cands, t)) : t \in AllTours(cands, <<1>>) })

\* What a run of the script from scratch on a file and a slider value can
\* put on the page.
PagesOf(rows, n) ==
    LET m == NLargest(CarregarEProcessarDados(rows), n)
    IN { <<Present(Loc(m, c))>> : c \in TravelingSalesmanProblem(m) }

Stages == <<"score", "select", "solve", "present">>

----------------------------------------------------------------------------
(* C1 *)

\* C1: for 1 <= N <= size of the dataset, the sequence returned by
\* encontrar_melhor_circuito has exactly N elements and holds each selected
\* identifier exactly once; the closing edge is not stored as a repeat.
C1_CircuitIsPermutation ==
    (Returned /\ 1 <= num_pontos /\ num_pontos <= Len(df)) =>
        /\ Len(df_circuito) = num_pontos
        /\ Labels(df_circuito) = Labels(melhores_pontos)
        /\ \A p, q \in DOMAIN df_circuito :
              df_circuito[p].idx = df_circuito[q].idx => p = q

----------------------------------------------------------------------------
(* C2 *)

\* C2: the selection keeps exactly the N records of smallest score: every
\* selected score is at most every non-selected score, and of two records of
\* equal score the earlier one of the input is the one kept.
C2_SelectsSmallest ==
    (Selected /\ 1 <= num_pontos /\ num_pontos <= Len(df)) =>
        /\ Len(melhores_pontos) = num_pontos
        /\ \A i \in DOMAIN df :
              df[i].idx \notin Labels(melhores_pontos) =>
                 \A p \in DOMAIN melhores_pontos :
                    /\ FracLe(melhores_pontos[p].score, df[i].score)
                    /\ FracEq(melhores_pontos[p].score, df[i].score) =>
                          melhores_pontos[p].idx < df[i].idx

----------------------------------------------------------------------------
(* C3 *)

\* C3: with N below 1 or above the number of records the call fails (with
\* InvalidCountError) and returns no circuit: it does not go on with a
\* candidate set of another size than N.
C3_InvalidCountRejected ==
    (Selected /\ (num_pontos < 1 \/ num_pontos > Len(df))) =>
        /\ pc = "erro"
        /\ df_circuito = <<>>

----------------------------------------------------------------------------
(* C4 *)

\* C4: the mean pollution and mean traffic that main shows are the means over
\* the selected records, each location counted once.
C4_MeansOverLocations ==
    pc = "apresentado" =>
        /\ shown[1].poluicao = MeanShown(melhores_pontos, "poluicao")
        /\ shown[1].transito = MeanShown(melhores_pontos, "transito")

----------------------------------------------------------------------------
(* C5 *)

\* C5: a constant metric column does not make carregar_e_processar_dados
\* fail; that metric is normalised to 0 in every row and every score is
\* defined.
C5_ConstantColumnIsZero ==
    \A c \in Metrics :
        (Len(log) >= 1 /\ File # <<>> /\ ConstantColumn(File, c)) =>
            /\ Loaded
            /\ \A i \in DOMAIN df :
                  /\ ~IsNaN(df[i][NormOf(c)])
                  /\ df[i][NormOf(c)].n = 0
                  /\ ~IsNaN(df[i].score)

\* A file of several rows with constant pollution and varying traffic has
\* been scored.
C5_Witness ==
    /\ Loaded
    /\ Len(File) >= 2
    /\ ConstantColumn(File, "poluicao")
    /\ ~ConstantColumn(File, "transito")
    /\ \A i \in DOMAIN df : df[i].poluicao_norm.n = 0

----------------------------------------------------------------------------
(* C6 *)

----------------------------------------------------------------------------
(* C7 *)

----------------------------------------------------------------------------
(* C8 *)

\* C8: neither N = 1 nor N = 2 ends in an error; N = 1 gives a circuit of one
\* element and length zero, N = 2 gives both points, in input order, with a
\* length of twice their distance.
C8_DegenerateCircuits ==
    /\ (Selected /\ num_pontos = 1 /\ Len(df) >= 1) =>
          /\ Returned
          /\ Len(df_circuito) = 1
          /\ ClosedLength(df_circuito) = 0
    /\ (Selected /\ num_pontos = 2 /\ Len(df) >= 2) =>
          /\ Returned
          /\ Labels(df_circuito) = Labels(melhores_pontos)
          /\ \A p, q \in DOMAIN df_circuito :
                p < q => df_circuito[p].idx < df_circuito[q].idx
          /\ ClosedLength(df_circuito)
               = 2 * Dist(melhores_pontos[1], melhores_pontos[2])

----------------------------------------------------------------------------
(* C9 *)

\* C9 as stated: the closed tour returned is no longer than the
\* nearest-neighbour tour over the same candidates from the first of them.
C9_NotLongerThanNearestNeighbour ==
    Returned =>
        \E l \in NearestNeighbourLengths(melhores_pontos) :
            ClosedLength(df_circuito) <= l

\* C9 amended: the closed tour returned is at most one and a half times as
\* long as a shortest closed tour over the same candidates.
C9_WithinThreeHalvesOfOptimal ==
    Returned =>
        2 * ClosedLength(df_circuito) <= 3 * OptimalLength(melhores_pontos)

\* A tour of four candidates was returned that is longer than every
\* nearest-neighbour tour, hence longer than the shortest one.
C9_Witness ==
    /\ Returned
    /\ Len(melhores_pontos) = 4
    /\ \A l \in NearestNeighbourLengths(melhores_pontos) :
          ClosedLength(df_circuito) > l
    /\ ClosedLength(df_circuito) > OptimalLength(melhores_pontos)

----------------------------------------------------------------------------
(* C10 *)

\* C10 as stated: once the run that an interaction started has ended, it was
\* one complete run, score, select, solve, present, and the page shows the
\* circuit and statistics of the current file and the current N; with no
\* file uploaded no stage has run.
C10_EveryRunComplete ==
    Finished =>
        IF uploaded_file = NoFile
        THEN log = <<>> /\ shown = <<>>
        ELSE /\ log = Stages
             /\ shown \in PagesOf(File, slider)

\* C10 amended: every interaction starts one run from scratch, whose stages
\* come in the order score, select, solve, present; the run is complete
\* unless a stage raises, and then it stops at that stage and shows no
\* circuit; a complete run shows the circuit and statistics of the current
\* file and the current N; with no file uploaded no stage runs.
C10_RunFromScratchInOrder ==
    /\ log = SubSeq(Stages, 1, Len(log))
    /\ uploaded_file = NoFile => log = <<>> /\ shown = <<>>
    /\ pc = "inicio" => log = <<>> /\ shown = <<>> /\ df = <<>> /\ df_circuito = <<>>
    /\ pc = "apresentado" =>
          /\ uploaded_file # NoFile
          /\ log = Stages
          /\ shown \in PagesOf(File, slider)
    /\ pc # "apresentado" => shown = <<>>
    /\ (Finished /\ uploaded_file # NoFile /\ pc # "apresentado") =>
          /\ pc = "erro"
          /\ erro # ""
          /\ Len(log) \in {1, 3}

\* The six-row file is on the page with N = 5 after the slider was moved:
\* five of the six rows are shown.
C10_Witness ==
    /\ pc = "apresentado"
    /\ Len(File) = 6
    /\ slider = SliderMin
    /\ Len(melhores_pontos) = SliderMin
    /\ shown \in PagesOf(File, slider)

====
